---- MODULE Spec2Model ----
(***************************************************************************)
(* A model of the MedExchange matching engine (src/order_book.py) and of   *)
(* the request handlers that drive it (src/main.py).                       *)
(*                                                                         *)
(* Order objects live in a heap, `orders`, indexed by order id: the book   *)
(* sides hold references to them, as the Python lists do, so a quantity    *)
(* changed through one reference is seen through every other.  Ids are     *)
(* handed out in arrival order (main.py draws them from os.urandom; only   *)
(* their distinctness matters to the engine).  user_id and timestamp are   *)
(* carried by the code but never read by the engine and are left out.      *)
(***************************************************************************)
EXTENDS Integers, Sequences, FiniteSets, TLC

\* Bounds of the model.
MaxOrders == 3
MaxPrice == 2
MaxQty == 2
NumThreads == 2
MaxSinkFailures == 1

BUY == "BUY"
SELL == "SELL"

Sides == {BUY, SELL}
Prices == 1..MaxPrice
Quantities == 1..MaxQty
Threads == 1..NumThreads

VARIABLES
    orders,         \* heap of Order objects, orders[id] (models.py Order)
    buy_orders,     \* OrderBook.buy_orders: sequence of order ids
    sell_orders,    \* OrderBook.sell_orders: sequence of order ids
    trade_history,  \* OrderBook.trade_history: sequence of Trade records
    dbOrders,       \* table "orders": id -> row
    dbTrades,       \* table "trades": id -> row
    errLog,         \* what logger.error has reported: set of <<kind, id>>
    sinkFailures,   \* how many calls or hand-offs the database has refused
    submitted,      \* every Order as it was when create_order built it
    lastCall,       \* the most recent add_order call, as its caller saw it
    pc,             \* concurrent handlers: where each request thread stands
    loc,            \* concurrent handlers: each thread's local variables
    batch,          \* concurrent handlers: the calls in flight together and
                    \* the state the first of them met
    response        \* the body a GET request was answered with, while that
                    \* request is the latest one

vars == <<orders, buy_orders, sell_orders, trade_history, dbOrders, dbTrades,
          errLog, sinkFailures, submitted, lastCall, pc, loc, batch, response>>

----------------------------------------------------------------------------
\* Entities and helpers.

Order(id, side, price, quantity) ==
    [order_id |-> id, side |-> side, price |-> price, quantity |-> quantity]

Trade(id, buy_id, sell_id, price, quantity) ==
    [trade_id |-> id, buy_order_id |-> buy_id, sell_order_id |-> sell_id,
     price |-> price, quantity |-> quantity]

\* str.upper() on the side strings the model submits.
Upper(s) ==
    CASE s = "buy" -> "BUY"
      [] s = "sell" -> "SELL"
      [] OTHER -> s

Min(a, b) == IF a <= b THEN a ELSE b

\* db.merge: insert the row, or replace the row with the same primary key.
Merge(table, key, row) ==
    [k \in (DOMAIN table) \cup {key} |-> IF k = key THEN row ELSE table[k]]

\* The part of the program state the engine works on, as one record.  The
\* field handoffs lists, in order, the calls of _save_trade and
\* _save_or_update_order made since the record was built, each with the
\* quantity its argument had when it was handed over.
State(o, b, s, t, dbo, dbt, log) ==
    [orders |-> o, buy_orders |-> b, sell_orders |-> s, trade_history |-> t,
     dbOrders |-> dbo, dbTrades |-> dbt, errLog |-> log, handoffs |-> <<>>]

HandOff(kind, id, quantity) == [kind |-> kind, id |-> id, quantity |-> quantity]

----------------------------------------------------------------------------
\* list.sort(key=lambda o: o.price[, reverse=True]): a stable sort.

\* A faulty comparison: an order also overtakes the orders of its own price.
BeforeOrLevel(S, x, y, descending) ==
    IF descending THEN S.orders[x].price >= S.orders[y].price
    ELSE S.orders[x].price <= S.orders[y].price

\* x goes before y in the sorted list only when its key is strictly better.
StrictlyBefore(S, x, y, descending) ==
    IF descending THEN S.orders[x].price > S.orders[y].price
    ELSE S.orders[x].price < S.orders[y].price

RECURSIVE InsertStable(_, _, _, _)
InsertStable(S, sorted, x, descending) ==
    IF sorted = <<>> THEN <<x>>
    ELSE IF StrictlyBefore(S, x, Head(sorted), descending)
         THEN <<x>> \o sorted
         ELSE <<Head(sorted)>> \o InsertStable(S, Tail(sorted), x, descending)

RECURSIVE SortByPrice(_, _, _)
SortByPrice(S, list, descending) ==
    IF list = <<>> THEN <<>>
    ELSE InsertStable(S, SortByPrice(S, SubSeq(list, 1, Len(list) - 1), descending),
                      list[Len(list)], descending)

----------------------------------------------------------------------------
\* Persistence hand-off.  `ok` says whether the database accepts the write
\* (db.merge and db.commit succeed) or raises.

\* _save_or_update_order: upsert the order's row; a failure is rolled back
\* and logged, and the method returns normally either way.  (Ids are never
\* empty here, so the early return of line 165 is not taken.)
save_or_update_order(S, id, ok) ==
    LET S0 == [S EXCEPT !.handoffs =
                   Append(@, HandOff("order", id, S.orders[id].quantity))]
    IN  IF ok
        THEN [S0 EXCEPT !.dbOrders = Merge(@, id, S.orders[id])]
        ELSE [S0 EXCEPT !.errLog = @ \cup {<<"order", id>>}]

\* A different binding: the name holds a value wherever it is read.
ExceptionNameAlwaysBound(ok) == TRUE

\* Whether the name `e` is bound when line 203 formats its message.  The line
\* sits after the try statement, not inside the except clause: when nothing
\* was raised `e` was never assigned, and when something was raised Python
\* unbinds `e` as the except clause ends.
ExceptionNameBound(ok) == FALSE

\* A faulty hand-off: the row is merged but the session is never committed,
\* so nothing reaches the table.
save_trade_uncommitted(S, trade, ok) ==
    [S |-> [S EXCEPT !.handoffs =
                Append(@, HandOff("trade", trade.trade_id, trade.quantity))],
     raised |-> TRUE]

\* _save_trade: merge the trade's row (rolled back on failure), then evaluate
\* the logger.error call of line 203.  Evaluating its f-string reads `e`; with
\* `e` unbound that raises UnboundLocalError before anything is logged.
save_trade(S, trade, ok) ==
    LET S0 == [S EXCEPT !.handoffs =
                   Append(@, HandOff("trade", trade.trade_id, trade.quantity))]
        S1 == IF ok THEN [S0 EXCEPT !.dbTrades = Merge(@, trade.trade_id, trade)]
              ELSE S0
    IN  IF ExceptionNameBound(ok)
        THEN [S |-> [S1 EXCEPT !.errLog = @ \cup {<<"trade", trade.trade_id>>}],
              raised |-> FALSE]
        ELSE [S |-> S1, raised |-> TRUE]

----------------------------------------------------------------------------
\* Matching.

\* str(uuid.uuid4()): a fresh id; the model numbers trades as they are made.
NewTradeId(S) == Len(S.trade_history) + 1

\* A faulty loop condition: a bid at exactly the best ask does not match.
BuyLoopCondStrict(S, b) ==
    /\ S.orders[b].quantity > 0
    /\ Len(S.sell_orders) > 0
    /\ S.orders[b].price > S.orders[S.sell_orders[1]].price

\* A faulty loop condition: the price test is missing.
BuyLoopCondAnyPrice(S, b) ==
    /\ S.orders[b].quantity > 0
    /\ Len(S.sell_orders) > 0

\* Loop condition of _match_buy (lines 60-64).
BuyLoopCond(S, b) ==
    /\ S.orders[b].quantity > 0
    /\ Len(S.sell_orders) > 0
    /\ S.orders[b].price >= S.orders[S.sell_orders[1]].price

\* Loop condition of _match_sell (lines 115-119).
SellLoopCond(S, s) ==
    /\ S.orders[s].quantity > 0
    /\ Len(S.buy_orders) > 0
    /\ S.orders[s].price <= S.orders[S.buy_orders[1]].price

\* A faulty quantity: all of the resting order, whatever the incoming one asks.
TradeQtyOfResting(S, incoming, resting) == S.orders[resting].quantity

\* trade_qty = min(incoming.quantity, resting.quantity)
TradeQty(S, incoming, resting) ==
    Min(S.orders[incoming].quantity, S.orders[resting].quantity)

\* A faulty price: the incoming order's.
TradePriceOfIncoming(S, incoming, resting) == S.orders[incoming].price

\* trade_price = resting.price
TradePrice(S, incoming, resting) == S.orders[resting].price

\* A faulty decrement: the resting order keeps its quantity.
DecrementIncomingOnly(S, incoming, resting, qty) ==
    [S EXCEPT !.orders[incoming].quantity = @ - qty]

\* The two in-place decrements (lines 80-81, 135-136).
Decrement(S, incoming, resting, qty) ==
    [S EXCEPT !.orders[incoming].quantity = @ - qty,
              !.orders[resting].quantity = @ - qty]

\* _match_buy.  Returns the state it leaves, the trades it made and how it
\* ended: "returned", or "raised" when an exception left the method.
RECURSIVE match_buy(_, _, _, _)
match_buy(S, b, trades_executed, ok) ==
    IF BuyLoopCond(S, b)
    THEN LET best_sell == S.sell_orders[1]
             trade_qty == TradeQty(S, b, best_sell)
             trade_price == TradePrice(S, b, best_sell)
             trade == Trade(NewTradeId(S), b, best_sell, trade_price, trade_qty)
             S1 == [S EXCEPT !.trade_history = Append(@, trade)]
             S2 == Decrement(S1, b, best_sell, trade_qty)
             saved == save_trade(S2, trade, ok)
         IN  IF saved.raised
             THEN [S |-> saved.S, trades |-> Append(trades_executed, trade),
                   outcome |-> "raised"]
             ELSE LET S3 == save_or_update_order(saved.S, b, ok)
                      S4 == save_or_update_order(S3, best_sell, ok)
                      S5 == IF S4.orders[best_sell].quantity = 0
                            THEN [S4 EXCEPT !.sell_orders = Tail(@)]
                            ELSE [S4 EXCEPT !.sell_orders[1] = best_sell]
                  IN  match_buy(S5, b, Append(trades_executed, trade), ok)
    ELSE LET S1 == IF S.orders[b].quantity > 0
                   THEN [S EXCEPT !.buy_orders =
                             SortByPrice(S, Append(@, b), TRUE)]
                   ELSE S
         IN  [S |-> S1, trades |-> trades_executed, outcome |-> "returned"]

\* _match_sell, the mirror image.
RECURSIVE match_sell(_, _, _, _)
match_sell(S, s, trades_executed, ok) ==
    IF SellLoopCond(S, s)
    THEN LET best_buy == S.buy_orders[1]
             trade_qty == TradeQty(S, s, best_buy)
             trade_price == TradePrice(S, s, best_buy)
             trade == Trade(NewTradeId(S), best_buy, s, trade_price, trade_qty)
             S1 == [S EXCEPT !.trade_history = Append(@, trade)]
             S2 == Decrement(S1, s, best_buy, trade_qty)
             saved == save_trade(S2, trade, ok)
         IN  IF saved.raised
             THEN [S |-> saved.S, trades |-> Append(trades_executed, trade),
                   outcome |-> "raised"]
             ELSE LET S3 == save_or_update_order(saved.S, s, ok)
                      S4 == save_or_update_order(S3, best_buy, ok)
                      S5 == IF S4.orders[best_buy].quantity = 0
                            THEN [S4 EXCEPT !.buy_orders = Tail(@)]
                            ELSE [S4 EXCEPT !.buy_orders[1] = best_buy]
                  IN  match_sell(S5, s, Append(trades_executed, trade), ok)
    ELSE LET S1 == IF S.orders[s].quantity > 0
                   THEN [S EXCEPT !.sell_orders =
                             SortByPrice(S, Append(@, s), FALSE)]
                   ELSE S
         IN  [S |-> S1, trades |-> trades_executed, outcome |-> "returned"]

\* The loop of add_order lines 46-47: save every trade again.
RECURSIVE save_trades(_, _, _)
save_trades(S, trades, ok) ==
    IF trades = <<>> THEN [S |-> S, raised |-> FALSE]
    ELSE LET saved == save_trade(S, Head(trades), ok)
         IN  IF saved.raised THEN saved
             ELSE save_trades(saved.S, Tail(trades), ok)

\* A faulty add_order: matching that raised is run once more.
add_order_retry(S, id, ok) ==
    LET first == IF Upper(S.orders[id].side) = "BUY"
                 THEN match_buy(S, id, <<>>, ok)
                 ELSE match_sell(S, id, <<>>, ok)
        m == IF first.outcome # "raised" THEN first
             ELSE IF Upper(S.orders[id].side) = "BUY"
                  THEN match_buy(first.S, id, first.trades, ok)
                  ELSE match_sell(first.S, id, first.trades, ok)
    IN  IF m.outcome = "raised" THEN m
        ELSE LET S1 == save_or_update_order(m.S, id, ok)
                 again == save_trades(S1, m.trades, ok)
             IN  [S |-> again.S, trades |-> m.trades,
                  outcome |-> IF again.raised THEN "raised" ELSE "returned"]

\* add_order: match, then persist the order and the trades, then return the
\* trades.  An exception raised on the way leaves add_order at that point.
add_order(S, id, ok) ==
    LET m == IF Upper(S.orders[id].side) = "BUY"
             THEN match_buy(S, id, <<>>, ok)
             ELSE match_sell(S, id, <<>>, ok)
    IN  IF m.outcome = "raised" THEN m
        ELSE LET S1 == save_or_update_order(m.S, id, ok)
                 again == save_trades(S1, m.trades, ok)
             IN  [S |-> again.S, trades |-> m.trades,
                  outcome |-> IF again.raised THEN "raised" ELSE "returned"]

----------------------------------------------------------------------------
\* The sequential system: one request at a time.

NoCall ==
    [order |-> 0, outcome |-> "none", trades |-> <<>>, ok |-> TRUE,
     pre_orders |-> <<>>, pre_buy |-> <<>>, pre_sell |-> <<>>,
     pre_history |-> <<>>, handoffs |-> <<>>]

\* The database accepts a write (ok) or refuses it; the model lets it refuse
\* MaxSinkFailures times.
SinkAnswers(ok) ==
    /\ (~ok) => sinkFailures < MaxSinkFailures
    /\ sinkFailures' = IF ok THEN sinkFailures ELSE sinkFailures + 1

\* The locals of a request thread that is not inside add_order.
NoLocals ==
    [order |-> 0, best |-> 0, trade_qty |-> 0, trade_price |-> 0,
     trade |-> Trade(0, 0, 0, 0, 0), trades_executed |-> <<>>]

\* No GET request has been answered since the latest POST.
NoResponse == [route |-> "none", body |-> <<>>]

\* OrderBook.__init__, an empty database and an empty log.
Init ==
    /\ orders = <<>>
    /\ buy_orders = <<>>
    /\ sell_orders = <<>>
    /\ trade_history = <<>>
    /\ dbOrders = <<>>
    /\ dbTrades = <<>>
    /\ errLog = {}
    /\ sinkFailures = 0
    /\ submitted = <<>>
    /\ lastCall = NoCall
    /\ pc = [t \in Threads |-> "idle"]
    /\ loc = [t \in Threads |-> NoLocals]
    /\ batch = [pre |-> State(<<>>, <<>>, <<>>, <<>>, <<>>, <<>>, {}),
                orders |-> <<>>]
    /\ response = NoResponse

\* POST /orders: build the Order (main.py lines 198-204) and hand it to
\* add_order.  lastCall keeps what the caller can tell about the call: the
\* order, the book it met, the trades made and whether add_order returned.
create_order(side, price, quantity, ok) ==
    /\ Len(orders) < MaxOrders
    /\ SinkAnswers(ok)
    /\ LET id == Len(orders) + 1
           heap == Append(orders, Order(id, side, price, quantity))
       IN  \E r \in {add_order(State(heap, buy_orders, sell_orders, trade_history,
                                dbOrders, dbTrades, errLog), id, ok)} :
           /\ orders' = r.S.orders
           /\ buy_orders' = r.S.buy_orders
           /\ sell_orders' = r.S.sell_orders
           /\ trade_history' = r.S.trade_history
           /\ dbOrders' = r.S.dbOrders
           /\ dbTrades' = r.S.dbTrades
           /\ errLog' = r.S.errLog
           /\ submitted' = Append(submitted, Order(id, side, price, quantity))
           /\ UNCHANGED <<pc, loc, batch>>
           /\ response' = NoResponse
           /\ lastCall' = [order |-> id, outcome |-> r.outcome,
                           trades |-> r.trades, ok |-> ok,
                           pre_orders |-> heap, pre_buy |-> buy_orders,
                           pre_sell |-> sell_orders,
                           pre_history |-> trade_history,
                           handoffs |-> r.S.handoffs]

Next ==
    \E side \in Sides, price \in Prices, quantity \in Quantities, ok \in BOOLEAN :
        create_order(side, price, quantity, ok)

Spec == Init /\ [][Next]_vars

----------------------------------------------------------------------------
\* The HTTP boundary: POST /orders with whatever a client sends.  Besides the
\* orders of the contract a body can carry a side that is neither BUY nor
\* SELL, and a zero or negative price or quantity.

AnySides == Sides \cup {"HOLD"}
AnyPrices == (0 - 1)..MaxPrice
AnyQuantities == (0 - 1)..MaxQty

\* all([user_id, side, price, quantity]) of main.py line 195: every field is
\* truthy, that is, no string is empty and no number is zero.
AllFieldsTruthy(side, price, quantity) ==
    side # "" /\ price # 0 /\ quantity # 0

\* The 400 answer of main.py line 196: nothing reaches the order book.
create_order_400(side, price, quantity) ==
    /\ ~AllFieldsTruthy(side, price, quantity)
    /\ lastCall' = [NoCall EXCEPT !.outcome = "rejected"]
    /\ UNCHANGED <<orders, buy_orders, sell_orders, trade_history, dbOrders,
                   dbTrades, errLog, sinkFailures, submitted, pc, loc, batch,
                   response>>

\* Past the test of line 195 the handler builds the Order and calls
\* add_order, whatever the values are.
create_order_checked(side, price, quantity, ok) ==
    /\ AllFieldsTruthy(side, price, quantity)
    /\ create_order(side, price, quantity, ok)

\* The database accepts every write here: what the handler lets through does
\* not depend on it.
NextInput ==
    \/ \E side \in AnySides, price \in AnyPrices, quantity \in AnyQuantities :
           create_order_400(side, price, quantity)
    \/ \E side \in AnySides, price \in AnyPrices, quantity \in AnyQuantities :
           create_order_checked(side, price, quantity, TRUE)

SpecInput == Init /\ [][NextInput]_vars

----------------------------------------------------------------------------
\* Concurrent request handlers.  main.py shares the one OrderBook among the
\* request threads and add_order takes no lock, so the statements of two
\* calls interleave.  Each action below is one statement (or one run of
\* statements that touch only the thread's own locals) of add_order,
\* _match_buy and _match_sell; the two methods differ only in which side is
\* the opposite one, so one set of actions serves both.  The line numbers
\* given are those of _match_buy.  list.sort is taken as a single step.

Cur == State(orders, buy_orders, sell_orders, trade_history,
             dbOrders, dbTrades, errLog)

IsBuy(id) == Upper(orders[id].side) = "BUY"

Opposite(id) == IF IsBuy(id) THEN sell_orders ELSE buy_orders

Goto(t, label) == pc' = [pc EXCEPT ![t] = label]

AllIdle == \A t \in Threads : pc[t] = "idle"

\* main.py lines 198-205: build the Order and enter add_order.
c_call(t, side, price, quantity) ==
    /\ pc[t] = "idle"
    /\ Len(orders) < MaxOrders
    /\ LET id == Len(orders) + 1
           o == Order(id, side, price, quantity)
       IN  /\ orders' = Append(orders, o)
           /\ submitted' = Append(submitted, o)
           /\ loc' = [loc EXCEPT ![t] = [NoLocals EXCEPT !.order = id]]
           /\ batch' = IF AllIdle
                       THEN [pre |-> Cur, orders |-> <<o>>]
                       ELSE [batch EXCEPT !.orders = Append(@, o)]
    /\ Goto(t, "loop")
    /\ UNCHANGED <<sinkFailures, buy_orders, sell_orders, trade_history, dbOrders, dbTrades,
                   errLog, response, lastCall>>

\* Lines 60-64 (115-119): the loop condition.
c_loop(t) ==
    /\ pc[t] = "loop"
    /\ LET id == loc[t].order
           again == IF IsBuy(id) THEN BuyLoopCond(Cur, id)
                    ELSE SellLoopCond(Cur, id)
       IN  Goto(t, IF again THEN "pick" ELSE "rest")
    /\ UNCHANGED <<sinkFailures, orders, buy_orders, sell_orders, trade_history, dbOrders,
                   dbTrades, errLog, submitted, response, lastCall, loc, batch>>

\* Lines 65-67 (120-122): take the front of the opposite side, fix the
\* trade's quantity and price.  (No side ever shrinks between the test and
\* this read, so the index is always in range.)
c_pick(t) ==
    /\ pc[t] = "pick"
    /\ Opposite(loc[t].order) # <<>>
    /\ LET id == loc[t].order
           best == Opposite(id)[1]
       IN  loc' = [loc EXCEPT ![t].best = best,
                              ![t].trade_qty = TradeQty(Cur, id, best),
                              ![t].trade_price = TradePrice(Cur, id, best)]
    /\ Goto(t, "record")
    /\ UNCHANGED <<sinkFailures, orders, buy_orders, sell_orders, trade_history, dbOrders,
                   dbTrades, errLog, submitted, response, lastCall, batch>>

\* Lines 69-77 (124-132): make the Trade, append it to trades_executed and
\* to trade_history.
c_record(t) ==
    /\ pc[t] = "record"
    /\ LET id == loc[t].order
           best == loc[t].best
           trade == Trade(NewTradeId(Cur),
                          IF IsBuy(id) THEN id ELSE best,
                          IF IsBuy(id) THEN best ELSE id,
                          loc[t].trade_price, loc[t].trade_qty)
       IN  /\ trade_history' = Append(trade_history, trade)
           /\ loc' = [loc EXCEPT ![t].trade = trade,
                                 ![t].trades_executed = Append(@, trade)]
    /\ Goto(t, "dec_incoming")
    /\ UNCHANGED <<sinkFailures, orders, buy_orders, sell_orders, dbOrders, dbTrades, errLog,
                   submitted, response, lastCall, batch>>

\* Line 80 (135): incoming.quantity -= trade_qty.
c_dec_incoming(t) ==
    /\ pc[t] = "dec_incoming"
    /\ orders' = [orders EXCEPT ![loc[t].order].quantity = @ - loc[t].trade_qty]
    /\ Goto(t, "dec_resting")
    /\ UNCHANGED <<sinkFailures, buy_orders, sell_orders, trade_history, dbOrders, dbTrades,
                   errLog, submitted, response, lastCall, loc, batch>>

\* Line 81 (136): resting.quantity -= trade_qty.
c_dec_resting(t) ==
    /\ pc[t] = "dec_resting"
    /\ orders' = [orders EXCEPT ![loc[t].best].quantity = @ - loc[t].trade_qty]
    /\ Goto(t, "save_trade")
    /\ UNCHANGED <<sinkFailures, buy_orders, sell_orders, trade_history, dbOrders, dbTrades,
                   errLog, submitted, response, lastCall, loc, batch>>

\* Lines 89-98 (144-152): _save_trade, and what follows it if it returns:
\* the two order upserts, the pop of a filled front order, back to the loop.
\* An exception out of _save_trade ends the call.
c_save_trade(t, ok) ==
    /\ pc[t] = "save_trade"
    /\ SinkAnswers(ok)
    /\ LET id == loc[t].order
           best == loc[t].best
           saved == save_trade(Cur, loc[t].trade, ok)
           S3 == save_or_update_order(saved.S, id, ok)
           S4 == save_or_update_order(S3, best, ok)
           S5 == IF S4.orders[best].quantity = 0
                 THEN IF IsBuy(id) THEN [S4 EXCEPT !.sell_orders = Tail(@)]
                      ELSE [S4 EXCEPT !.buy_orders = Tail(@)]
                 ELSE IF IsBuy(id) THEN [S4 EXCEPT !.sell_orders[1] = best]
                      ELSE [S4 EXCEPT !.buy_orders[1] = best]
       IN  \E after \in {IF saved.raised THEN saved.S ELSE S5} :
           /\ buy_orders' = after.buy_orders
           /\ sell_orders' = after.sell_orders
           /\ dbOrders' = after.dbOrders
           /\ dbTrades' = after.dbTrades
           /\ errLog' = after.errLog
           /\ IF saved.raised
              THEN Goto(t, "idle") /\ loc' = [loc EXCEPT ![t] = NoLocals]
              ELSE Goto(t, "loop") /\ UNCHANGED loc
    /\ UNCHANGED <<orders, trade_history, submitted, response, lastCall, batch>>

\* Lines 101-102 (155-156): a remainder is appended to the order's own side.
c_append(t) ==
    /\ pc[t] = "rest"
    /\ LET id == loc[t].order
       IN  IF orders[id].quantity > 0
           THEN /\ IF IsBuy(id)
                   THEN /\ buy_orders' = Append(buy_orders, id)
                        /\ UNCHANGED sell_orders
                   ELSE /\ sell_orders' = Append(sell_orders, id)
                        /\ UNCHANGED buy_orders
                /\ Goto(t, "sort")
           ELSE /\ UNCHANGED <<buy_orders, sell_orders>>
                /\ Goto(t, "persist")
    /\ UNCHANGED <<sinkFailures, orders, trade_history, dbOrders, dbTrades, errLog, submitted,
                   response, lastCall, loc, batch>>

\* Line 103 (157): the side is sorted again.
c_sort(t) ==
    /\ pc[t] = "sort"
    /\ IF IsBuy(loc[t].order)
       THEN /\ buy_orders' = SortByPrice(Cur, buy_orders, TRUE)
            /\ UNCHANGED sell_orders
       ELSE /\ sell_orders' = SortByPrice(Cur, sell_orders, FALSE)
            /\ UNCHANGED buy_orders
    /\ Goto(t, "persist")
    /\ UNCHANGED <<sinkFailures, orders, trade_history, dbOrders, dbTrades, errLog, submitted,
                   response, lastCall, loc, batch>>

\* add_order lines 44-50: upsert the order, save the trades again, return.
c_persist(t, ok) ==
    /\ pc[t] = "persist"
    /\ SinkAnswers(ok)
    /\ \E again \in {save_trades(save_or_update_order(Cur, loc[t].order, ok),
                                 loc[t].trades_executed, ok)} :
           /\ dbOrders' = again.S.dbOrders
           /\ dbTrades' = again.S.dbTrades
           /\ errLog' = again.S.errLog
    /\ Goto(t, "idle")
    /\ loc' = [loc EXCEPT ![t] = NoLocals]
    /\ UNCHANGED <<orders, buy_orders, sell_orders, trade_history, submitted,
                   response, lastCall, batch>>

NextConc ==
    \E t \in Threads :
        \/ \E side \in Sides, price \in Prices, quantity \in Quantities :
               c_call(t, side, price, quantity)
        \/ c_loop(t)
        \/ c_pick(t)
        \/ c_record(t)
        \/ c_dec_incoming(t)
        \/ c_dec_resting(t)
        \/ \E ok \in BOOLEAN : c_save_trade(t, ok)
        \/ c_append(t)
        \/ c_sort(t)
        \/ \E ok \in BOOLEAN : c_persist(t, ok)

SpecConc == Init /\ [][NextConc]_vars

\* GET /order_book and GET /trades: what the two queries return when they
\* run in the current state (o.__dict__ of every entry, in list order).
\* A faulty view: each side listed from its last order to its first.
get_order_book_reversed ==
    [buy_orders |-> [i \in 1..Len(buy_orders) |->
                        orders[buy_orders[Len(buy_orders) + 1 - i]]],
     sell_orders |-> [i \in 1..Len(sell_orders) |->
                         orders[sell_orders[Len(sell_orders) + 1 - i]]]]

get_order_book ==
    [buy_orders |-> [i \in 1..Len(buy_orders) |-> orders[buy_orders[i]]],
     sell_orders |-> [i \in 1..Len(sell_orders) |-> orders[sell_orders[i]]]]

get_trade_history == trade_history

\* GET /order_book and GET /trades (main.py lines 218-225): the handler calls
\* the query and sends what it returns; the queries build new lists and assign
\* to nothing.
GET_order_book ==
    /\ response' = [route |-> "/order_book", body |-> get_order_book]
    /\ UNCHANGED <<orders, buy_orders, sell_orders, trade_history, dbOrders,
                   dbTrades, errLog, sinkFailures, submitted, lastCall, pc,
                   loc, batch>>

GET_trades ==
    /\ response' = [route |-> "/trades", body |-> get_trade_history]
    /\ UNCHANGED <<orders, buy_orders, sell_orders, trade_history, dbOrders,
                   dbTrades, errLog, sinkFailures, submitted, lastCall, pc,
                   loc, batch>>

\* Orders and queries, one request at a time.  The queries do not touch the
\* database, which accepts every write here.
NextQuery ==
    \/ \E side \in Sides, price \in Prices, quantity \in Quantities :
           create_order(side, price, quantity, TRUE)
    \/ GET_order_book
    \/ GET_trades

SpecQuery == Init /\ [][NextQuery]_vars

----------------------------------------------------------------------------
\* Vocabulary of the claims about one add_order call (read off lastCall).

Called == lastCall.outcome # "none"

Incoming == lastCall.pre_orders[lastCall.order]

IncomingIsBuy == Upper(Incoming.side) = "BUY"

\* The opposite and own side as the call found them, and as they are now.
PreOpposite == IF IncomingIsBuy THEN lastCall.pre_sell ELSE lastCall.pre_buy
PreOwn == IF IncomingIsBuy THEN lastCall.pre_buy ELSE lastCall.pre_sell
NowOpposite == IF IncomingIsBuy THEN sell_orders ELSE buy_orders
NowOwn == IF IncomingIsBuy THEN buy_orders ELSE sell_orders

\* The incoming order's price crosses the best price of the opposite side.
Crossing ==
    /\ PreOpposite # <<>>
    /\ IF IncomingIsBuy
       THEN Incoming.price >= lastCall.pre_orders[PreOpposite[1]].price
       ELSE Incoming.price <= lastCall.pre_orders[PreOpposite[1]].price

Range(seq) == {seq[i] : i \in 1..Len(seq)}

RECURSIVE SumQuantity(_)
SumQuantity(trades) ==
    IF trades = <<>> THEN 0 ELSE Head(trades).quantity + SumQuantity(Tail(trades))

\* The counterparty of the incoming order in one of its trades.
RestingId(t) ==
    IF t.buy_order_id = lastCall.order THEN t.sell_order_id ELSE t.buy_order_id

----------------------------------------------------------------------------
\* C1: every trade an add_order call makes is priced at the limit price of
\* the resting order it matched, whatever the incoming order's price.
C1_TradeAtRestingPrice ==
    \A i \in 1..Len(lastCall.trades) :
        LET t == lastCall.trades[i]
        IN  /\ RestingId(t) \in Range(PreOpposite)
            /\ i = 1 => RestingId(t) = PreOpposite[1]
            /\ t.price = lastCall.pre_orders[RestingId(t)].price

\* A call traded at a price that differs from the incoming order's price.
C1_Witness ==
    /\ Called
    /\ \E i \in 1..Len(lastCall.trades) :
           lastCall.trades[i].price # Incoming.price

----------------------------------------------------------------------------
\* Two orders stand in the same side.
C2SameSide(a, b) ==
    \/ a \in Range(buy_orders) /\ b \in Range(buy_orders)
    \/ a \in Range(sell_orders) /\ b \in Range(sell_orders)

\* Entries of equal price stand in arrival order (ids are handed out in
\* arrival order).
C2ArrivalOrder(side) ==
    \A i, j \in 1..Len(side) :
        (i < j /\ orders[side[i]].price = orders[side[j]].price)
            => side[i] < side[j]

\* A step that reduces the later of two resting orders of one price leaves
\* the earlier one filled to zero and out of its side.
C2Step ==
    \A a, b \in 1..Len(orders) :
        ( /\ a < b
          /\ C2SameSide(a, b)
          /\ orders[a].price = orders[b].price
          /\ orders'[b].quantity < orders[b].quantity )
        => ( /\ orders'[a].quantity = 0
             /\ a \notin Range(buy_orders') \cup Range(sell_orders') )

\* C2: FIFO at equal price.  After any sequence of add_order calls, orders
\* of equal price stand in a side in their arrival order, and a crossing call
\* reduces the later of two such orders only once the earlier one has been
\* filled to zero and removed.
C2_FifoAtEqualPrice ==
    /\ [](C2ArrivalOrder(buy_orders) /\ C2ArrivalOrder(sell_orders))
    /\ [][C2Step]_vars

\* Two orders rest at one price, and a crossing call has traded with the
\* earlier one while the later one still has its full quantity.
C2_Witness ==
    /\ Called
    /\ lastCall.trades # <<>>
    /\ \E i, j \in 1..Len(NowOpposite) :
        /\ i < j
        /\ NowOpposite[i] = RestingId(lastCall.trades[1])
        /\ orders[NowOpposite[i]].price = orders[NowOpposite[j]].price
        /\ NowOpposite[i] < NowOpposite[j]
        /\ orders[NowOpposite[i]].quantity
               < lastCall.pre_orders[NowOpposite[i]].quantity
        /\ orders[NowOpposite[j]].quantity
               = lastCall.pre_orders[NowOpposite[j]].quantity

----------------------------------------------------------------------------
\* C3: the quantities of the trades an add_order call makes sum to at most
\* the quantity the order had when the call began.
C3_FillsAtMostOriginal ==
    Called => SumQuantity(lastCall.trades) <= Incoming.quantity

\* A call made a trade for part of a larger incoming order.
C3_Witness ==
    /\ Called
    /\ lastCall.trades # <<>>
    /\ SumQuantity(lastCall.trades) >= 1
    /\ SumQuantity(lastCall.trades) < Incoming.quantity

----------------------------------------------------------------------------
\* C4: once an add_order call has ended, by returning or by raising, no
\* order with remaining quantity 0 stands in either side.
C4_NoFilledOrderRests ==
    Called =>
        \A id \in Range(buy_orders) \cup Range(sell_orders) :
            orders[id].quantity # 0

----------------------------------------------------------------------------
\* C5: an order that meets an empty opposite side, or a best price it does
\* not cross, makes add_order return no trades without raising, leaves
\* trade_history and the opposite side as they were, and rests in its own
\* side with its full quantity.
C5_NoMatchRests ==
    (Called /\ ~Crossing) =>
        /\ lastCall.outcome = "returned"
        /\ lastCall.trades = <<>>
        /\ trade_history = lastCall.pre_history
        /\ NowOpposite = PreOpposite
        /\ \A id \in Range(PreOpposite) : orders[id] = lastCall.pre_orders[id]
        /\ Len(NowOwn) = Len(PreOwn) + 1
        /\ Range(NowOwn) = Range(PreOwn) \cup {lastCall.order}
        /\ orders[lastCall.order] = Incoming

\* An order met a non-empty opposite side it does not cross, while the
\* database refused the write of the order.
C5_Witness ==
    /\ Called
    /\ ~Crossing
    /\ PreOpposite # <<>>
    /\ ~lastCall.ok
    /\ lastCall.order \in Range(NowOwn)

----------------------------------------------------------------------------
\* C6: an order of quantity q that crosses an opposite side holding exactly
\* one order, of quantity r, makes add_order return exactly one trade, of
\* quantity min(q, r), naming the BUY order as buyer and the SELL order as
\* seller; afterwards each of the two orders stands in its side exactly when
\* it has quantity left, with that quantity.
C6_SingleMatch ==
    (Called /\ Crossing /\ Len(PreOpposite) = 1) =>
        LET resting == PreOpposite[1]
            q == Incoming.quantity
            r == lastCall.pre_orders[resting].quantity
            m == Min(q, r)
        IN  /\ lastCall.outcome = "returned"
            /\ Len(lastCall.trades) = 1
            /\ lastCall.trades[1].quantity = m
            /\ lastCall.trades[1].buy_order_id
                   = (IF IncomingIsBuy THEN lastCall.order ELSE resting)
            /\ lastCall.trades[1].sell_order_id
                   = (IF IncomingIsBuy THEN resting ELSE lastCall.order)
            /\ orders[resting].quantity = r - m
            /\ orders[lastCall.order].quantity = q - m
            /\ (resting \in Range(NowOpposite)) <=> (r - m > 0)
            /\ (lastCall.order \in Range(NowOwn)) <=> (q - m > 0)

----------------------------------------------------------------------------
\* A side is in price order, ties in arrival order.
C7Sorted(side, descending) ==
    \A i, j \in 1..Len(side) :
        i < j =>
            /\ ~StrictlyBefore([orders |-> orders], side[j], side[i], descending)
            /\ orders[side[i]].price = orders[side[j]].price => side[i] < side[j]

\* No two entries of a side share an order id.
C7NoDuplicate(side) ==
    \A i, j \in 1..Len(side) : i # j => orders[side[i]].order_id # orders[side[j]].order_id

\* C7: buy_orders is sorted by descending price and sell_orders by ascending
\* price, ties in arrival order; no two entries of a side share an order id;
\* every entry has remaining quantity > 0.
C7_BookSideInvariant ==
    /\ C7Sorted(buy_orders, TRUE)
    /\ C7Sorted(sell_orders, FALSE)
    /\ C7NoDuplicate(buy_orders)
    /\ C7NoDuplicate(sell_orders)
    /\ \A id \in Range(buy_orders) \cup Range(sell_orders) :
           orders[id].quantity > 0

----------------------------------------------------------------------------
\* The last call, run again from the state it met with a working database.
C10WithWorkingSink ==
    add_order(State(lastCall.pre_orders, lastCall.pre_buy, lastCall.pre_sell,
                    lastCall.pre_history, <<>>, <<>>, {}),
              lastCall.order, TRUE)

\* The log names the order or a trade of the last call.
C10Reported ==
    \/ <<"order", lastCall.order>> \in errLog
    \/ \E i \in 1..Len(lastCall.trades) :
           <<"trade", lastCall.trades[i].trade_id>> \in errLog

\* C10: when the database refuses the writes of an add_order call, the
\* failure is reported and the call still runs to completion and returns its
\* trades, leaving in memory exactly what the same call leaves with a working
\* database.
C10_SinkFailureNotFatal ==
    (Called /\ ~lastCall.ok) =>
        /\ lastCall.outcome = "returned"
        /\ C10Reported
        /\ lastCall.trades = C10WithWorkingSink.trades
        /\ orders = C10WithWorkingSink.S.orders
        /\ buy_orders = C10WithWorkingSink.S.buy_orders
        /\ sell_orders = C10WithWorkingSink.S.sell_orders
        /\ trade_history = C10WithWorkingSink.S.trade_history

----------------------------------------------------------------------------
\* The book and the trades as an observer compares them (trade ids are
\* fresh tokens and carry no meaning).
C8View(S) ==
    [buy_orders |-> [i \in 1..Len(S.buy_orders) |-> S.orders[S.buy_orders[i]]],
     sell_orders |-> [i \in 1..Len(S.sell_orders) |-> S.orders[S.sell_orders[i]]],
     trades |-> [i \in 1..Len(S.trade_history) |->
                    [buy_order_id |-> S.trade_history[i].buy_order_id,
                     sell_order_id |-> S.trade_history[i].sell_order_id,
                     price |-> S.trade_history[i].price,
                     quantity |-> S.trade_history[i].quantity]]]

\* The two calls of the batch run one after the other.
C8Serial(first, second) ==
    LET S0 == [batch.pre EXCEPT !.orders = @ \o batch.orders]
    IN  add_order(add_order(S0, first, TRUE).S, second, TRUE).S

\* C8: two add_order calls in flight together behave as two atomic
\* transactions.  When both have ended, the book sides and the trade history
\* are those of running the two calls one after the other, in one order or
\* the other, from the state the first of them met; no resting order has a
\* quantity below zero; no resting order has left its side unfilled.
C8_CallsAreAtomic ==
    /\ \A id \in Range(buy_orders) \cup Range(sell_orders) :
           orders[id].quantity >= 0
    /\ (AllIdle /\ Len(batch.orders) = 2) =>
           LET a == batch.orders[1].order_id
               b == batch.orders[2].order_id
           IN  /\ C8View(Cur) \in {C8View(C8Serial(a, b)), C8View(C8Serial(b, a))}
               /\ \A id \in Range(batch.pre.buy_orders)
                            \cup Range(batch.pre.sell_orders) :
                      id \notin Range(buy_orders) \cup Range(sell_orders)
                          => orders[id].quantity = 0

----------------------------------------------------------------------------
\* The quantity the trades of a history have filled of an order.
C9Filled(id, history) ==
    SumQuantity(SelectSeq(history,
                          LAMBDA t : t.buy_order_id = id \/ t.sell_order_id = id))

\* Every order shown has a quantity other than 0, the one it was submitted
\* with less what the trades of the history have filled of it.
C9Consistent(shown, history) ==
    \A i \in 1..Len(shown) :
        /\ shown[i].quantity # 0
        /\ shown[i].quantity
               = submitted[shown[i].order_id].quantity
                   - C9Filled(shown[i].order_id, history)

\* C9: whatever state get_order_book and get_trade_history run in, they see
\* no partly applied match: every trade of the history has been deducted
\* from the orders shown, and no order is shown with quantity 0.
C9_QueriesSeeWholeMatches ==
    /\ C9Consistent(get_order_book.buy_orders, get_trade_history)
    /\ C9Consistent(get_order_book.sell_orders, get_trade_history)

----------------------------------------------------------------------------
\* C11: an order with a non-positive price, a non-positive quantity or a side
\* that is neither BUY nor SELL is rejected before matching: the call makes
\* no trade and leaves buy_orders, sell_orders and trade_history as they were.

C11Invalid(o) ==
    \/ o.price <= 0
    \/ o.quantity <= 0
    \/ Upper(o.side) \notin {"BUY", "SELL"}

C11_InvalidOrderRejected ==
    (lastCall.order # 0 /\ C11Invalid(Incoming)) =>
        /\ lastCall.trades = <<>>
        /\ buy_orders = lastCall.pre_buy
        /\ sell_orders = lastCall.pre_sell
        /\ trade_history = lastCall.pre_history

----------------------------------------------------------------------------
\* C12: trade_history only grows and its entries never change: across an
\* add_order call the history before the call is a prefix of the history after
\* it, and the trades the call returns are exactly the appended suffix, in the
\* same order.

\* What the caller of add_order receives: the list of line 50, or nothing
\* when an exception left the call.
C12Returned ==
    IF lastCall.outcome = "returned" THEN lastCall.trades ELSE <<>>

C12_HistoryGrowsByReturnedTrades ==
    Called => trade_history = lastCall.pre_history \o C12Returned

----------------------------------------------------------------------------
\* C13: the order upsert (_save_or_update_order) is invoked only for orders
\* whose remaining quantity is > 0: an order that matching reduced to zero,
\* incoming or resting, is never upserted.

C13Upserts ==
    {lastCall.handoffs[i] : i \in {j \in 1..Len(lastCall.handoffs) :
                                       lastCall.handoffs[j].kind = "order"}}

----------------------------------------------------------------------------
\* C14: each executed trade is recorded in the persistent trade store exactly
\* once: the store holds one record per trade id, equal to the in-memory
\* trade.

C14Stored(t) ==
    t.trade_id \in DOMAIN dbTrades /\ dbTrades[t.trade_id] = t

C14HandOffs(t) ==
    Cardinality({i \in 1..Len(lastCall.handoffs) :
                    /\ lastCall.handoffs[i].kind = "trade"
                    /\ lastCall.handoffs[i].id = t.trade_id})

----------------------------------------------------------------------------
\* C15: get_order_book and get_trade_history leave buy_orders, sell_orders
\* and trade_history unchanged, and return the bids and asks in their
\* matching-priority order and the trades in the order they were appended.

\* Best price first, and at one price the earlier arrival first.
C15Priority(list, descending) ==
    \A i, j \in 1..Len(list) :
       i < j =>
          \/ IF descending THEN list[i].price > list[j].price
             ELSE list[i].price < list[j].price
          \/ /\ list[i].price = list[j].price
             /\ list[i].order_id < list[j].order_id

C15Answer ==
    /\ response.route = "/order_book" =>
          /\ C15Priority(response.body.buy_orders, TRUE)
          /\ C15Priority(response.body.sell_orders, FALSE)
          /\ [i \in 1..Len(response.body.buy_orders) |->
                 response.body.buy_orders[i].order_id] = buy_orders
          /\ [i \in 1..Len(response.body.sell_orders) |->
                 response.body.sell_orders[i].order_id] = sell_orders
    /\ response.route = "/trades" =>
          /\ response.body = trade_history
          /\ \A i \in 1..Len(response.body) : response.body[i].trade_id = i

C15Frame ==
    (response' # response /\ response'.route # "none") =>
        UNCHANGED <<orders, buy_orders, sell_orders, trade_history>>

C15_QueriesReadOnly ==
    [](C15Answer) /\ [][C15Frame]_vars

\* A book view with two bids at one price, taken after a trade was made.
C15_Witness ==
    /\ response.route = "/order_book"
    /\ \E i, j \in 1..Len(response.body.buy_orders) :
          /\ i < j
          /\ response.body.buy_orders[i].price =
                 response.body.buy_orders[j].price
    /\ Len(trade_history) > 0

----------------------------------------------------------------------------
\* C16: an incoming order that crosses several resting orders in one
\* add_order call makes one trade per resting order it touches, in the
\* opposite side's priority order; every touched resting order except
\* possibly the last is filled to zero and removed; matching stops only when
\* the incoming order is exhausted or the best remaining price no longer
\* crosses, and a remainder then rests in the incoming order's own side.

\* The resting orders the call traded with, in the order of its trades.
C16Touched ==
    [i \in 1..Len(lastCall.trades) |-> RestingId(lastCall.trades[i])]

\* The incoming order still crosses the best order of the opposite side.
C16StillCrosses ==
    /\ NowOpposite # <<>>
    /\ IF IncomingIsBuy
       THEN orders[lastCall.order].price >= orders[NowOpposite[1]].price
       ELSE orders[lastCall.order].price <= orders[NowOpposite[1]].price

C16_SweepsInPriorityOrder ==
    Called =>
        /\ Len(lastCall.trades) <= Len(PreOpposite)
        /\ C16Touched = SubSeq(PreOpposite, 1, Len(lastCall.trades))
        /\ \A i \in 1..(Len(lastCall.trades) - 1) :
              /\ orders[C16Touched[i]].quantity = 0
              /\ C16Touched[i] \notin Range(NowOpposite)
        /\ orders[lastCall.order].quantity = 0 \/ ~C16StillCrosses
        /\ orders[lastCall.order].quantity > 0 =>
              lastCall.order \in Range(NowOwn)

----------------------------------------------------------------------------
\* C17: every trade has quantity >= 1, equal to the minimum of the incoming
\* and the resting order's remaining quantities at the instant of matching,
\* and no order's remaining quantity ever becomes negative.

\* What was left of order id when the call made its i-th trade.
C17Remaining(id, i) ==
    lastCall.pre_orders[id].quantity
        - C9Filled(id, SubSeq(lastCall.trades, 1, i - 1))

C17_TradesArePositiveMinima ==
    /\ \A i \in 1..Len(trade_history) : trade_history[i].quantity >= 1
    /\ \A id \in 1..Len(orders) : orders[id].quantity >= 0
    /\ Called =>
          \A i \in 1..Len(lastCall.trades) :
             lastCall.trades[i].quantity =
                 Min(C17Remaining(lastCall.order, i),
                     C17Remaining(RestingId(lastCall.trades[i]), i))

----------------------------------------------------------------------------
\* C18: persistence is incremental and in emission order: within one
\* add_order call the trade of a loop iteration and the updated state of both
\* its orders are handed to the sink before the next iteration makes its
\* trade.

\* The three hand-offs of the call's i-th iteration stand at places 3i-2,
\* 3i-1 and 3i of the call's hand-offs: the trade, the incoming order, the
\* resting order.
C18Iteration(i) ==
    /\ Len(lastCall.handoffs) >= 3 * i
    /\ lastCall.handoffs[3 * i - 2].kind = "trade"
    /\ lastCall.handoffs[3 * i - 2].id = lastCall.trades[i].trade_id
    /\ lastCall.handoffs[3 * i - 1].kind = "order"
    /\ lastCall.handoffs[3 * i - 1].id = lastCall.order
    /\ lastCall.handoffs[3 * i].kind = "order"
    /\ lastCall.handoffs[3 * i].id = RestingId(lastCall.trades[i])

C18_PersistsEachIteration ==
    Called => \A i \in 1..Len(lastCall.trades) : C18Iteration(i)

----------------------------------------------------------------------------
\* C19: every add_order call on a finite book terminates, and the number of
\* trades it makes is at most the number of orders resting on the opposite
\* side when the call began.

C19_EndsWithinOppositeSide ==
    Called =>
        /\ lastCall.outcome \in {"returned", "raised"}
        /\ Len(lastCall.trades) <= Len(PreOpposite)

\* A call that made as many trades as the opposite side had orders.
C19_Witness ==
    /\ Called
    /\ Len(PreOpposite) >= 1
    /\ Len(lastCall.trades) = Len(PreOpposite)

----------------------------------------------------------------------------
\* C20: quantity is conserved: for every order ever submitted, its original
\* quantity equals its remaining quantity plus the quantities of the trades
\* in trade_history that name it, and the total quantity filled on BUY orders
\* equals the total filled on SELL orders.

\* The quantity filled on the first n submitted orders of one side.
RECURSIVE C20TotalFilled(_, _)
C20TotalFilled(side, n) ==
    IF n = 0 THEN 0
    ELSE C20TotalFilled(side, n - 1)
         + (IF Upper(submitted[n].side) = side
            THEN submitted[n].quantity - orders[n].quantity
            ELSE 0)

C20_QuantityConserved ==
    /\ Len(orders) = Len(submitted)
    /\ \A id \in 1..Len(submitted) :
          submitted[id].quantity
              = orders[id].quantity + C9Filled(id, trade_history)
    /\ C20TotalFilled("BUY", Len(submitted))
           = C20TotalFilled("SELL", Len(submitted))
    /\ C20TotalFilled("BUY", Len(submitted)) = SumQuantity(trade_history)

\* An order filled in part, and a second order cut by two trades.
C20_Witness ==
    /\ \E id \in 1..Len(submitted) :
          /\ orders[id].quantity > 0
          /\ orders[id].quantity < submitted[id].quantity
    /\ SumQuantity(trade_history) >= 2

----------------------------------------------------------------------------
\* C21: the book is never crossed at rest: after every add_order call, if
\* both sides are non-empty then the best bid price is strictly less than the
\* best ask price.

C21_NeverCrossedAtRest ==
    \A b \in Range(buy_orders), a \in Range(sell_orders) :
       orders[b].price < orders[a].price

\* The last call left its order resting opposite a non-empty side.
C21_Witness ==
    /\ Called
    /\ lastCall.order \in Range(NowOwn)
    /\ NowOpposite # <<>>

----------------------------------------------------------------------------
\* C22: when add_order returns with a working sink, the persistent store
\* mirrors memory: every order resting in buy_orders or sell_orders has a
\* stored record with the same side, price and remaining quantity, and the
\* stored trades are exactly the trades of trade_history.

C22OrderStored(id) ==
    /\ id \in DOMAIN dbOrders
    /\ dbOrders[id].side = orders[id].side
    /\ dbOrders[id].price = orders[id].price
    /\ dbOrders[id].quantity = orders[id].quantity

C22TradesStored ==
    /\ DOMAIN dbTrades = 1..Len(trade_history)
    /\ \A i \in 1..Len(trade_history) :
          dbTrades[trade_history[i].trade_id] = trade_history[i]

C22_StoreMirrorsMemory ==
    (Called /\ lastCall.outcome = "returned" /\ sinkFailures = 0) =>
        /\ \A id \in Range(buy_orders) \cup Range(sell_orders) :
              C22OrderStored(id)
        /\ C22TradesStored

----------------------------------------------------------------------------
\* C23: _save_trade reports an error only when the database merge or commit
\* raised: when they succeed it returns normally without logging an error,
\* and in neither case does an exception escape it to the matching loop.

\* The hand-off of the i-th trade of the last call, with an empty log.
C23HandOff(i) ==
    save_trade([Cur EXCEPT !.errLog = {}], lastCall.trades[i], lastCall.ok)

C23_SaveTradeReportsAndReturns ==
    Called =>
        \A i \in 1..Len(lastCall.trades) :
           /\ ~C23HandOff(i).raised
           /\ (C23HandOff(i).S.errLog # {}) <=> ~lastCall.ok

====
